---- MODULE Spec2Model ----
(***************************************************************************)
(* KeyCloakService (services/keycloak.services.ts): the session token      *)
(* lifecycle manager.  One manager instance, its Keycloak client, the      *)
(* browser session storage, the refresh timers of the event loop and the   *)
(* provider promises in flight.  Every promise callback and timer callback *)
(* runs to completion (JavaScript's run-to-completion), so each is one     *)
(* action.  The provider (keycloak-js) is the environment: it settles each *)
(* promise with any outcome its interface allows.  this.counter, which     *)
(* only numbers log lines, and the redirect URL of logout are left out.    *)
(* Spec is the whole service; the further specifications run one part of   *)
(* it from the states that part can start in: scheduling (SpecSchedule),   *)
(* logout's guard (SpecLogout), verifyRoles (SpecRoles), the patched login *)
(* (SpecLogin), an established session (SpecEstablished) and the timer     *)
(* chain with its fairness (SpecChain).                                    *)
(***************************************************************************)
EXTENDS Integers, FiniteSets, Sequences, TLC

\* ------------------------------------------------------------------ bounds
\* Public calls that start a flow (init, logout, refresh, schedule, initSession).
MaxCalls == 2
\* Distinct token values the provider issues (0 stands for an absent token).
MaxTok == 2
\* The clock runs over 0..MaxNow seconds.
MaxNow == 1

\* ------------------------------------------------------- program constants
REFRESH_ATTEMPT_INTERVAL == 10
\* The safety buffer refreshToken adds to the remaining validity.
RefreshBuffer == 100
\* updateToken's argument that forces a refresh.
ForceMinValidity == -1

\* ------------------------------------------------------------ value domains
\* An optional value: <<>> is JavaScript's undefined, <<v>> is the value v.
Undefined == <<>>
Some(v) == <<v>>
IsDefined(x) == x # <<>>
Val(x) == x[1]

Tokens == 1 .. MaxTok
TokenOrNone == 0 .. MaxTok
\* Expiries the provider stamps on access tokens (seconds on the model's
\* clock) and on refresh tokens (0: a refresh token that never was valid on
\* this clock), and the clock skews it reports.
ExpValues == 1 .. MaxNow
RefreshExpValues == 0 .. MaxNow
SkewValues == {-1, 0}
EarlyInputs == {0, 2 * REFRESH_ATTEMPT_INTERVAL}
\* Identity-provider hints the application passes to initializeKeyCloak.
IdpHints == {"bcsc", "idir"}

Max(a, b) == IF a >= b THEN a ELSE b

\* ------------------------------------------------------------------- state
VARIABLES
    kc,           \* this.kc: the current Keycloak client (id 0: undefined)
    nextClient,   \* how many clients `new Keycloak` has constructed
    storage,      \* session storage, the keys the manager uses
    parsedToken,  \* this.parsedToken: the cached decoded claims
    timerId,      \* this.timerId: the last handle setTimeout returned
    timers,       \* the pending timeouts of the event loop
    pending,      \* provider promises in flight, with the handlers attached
    pinia,        \* whether a Pinia store runtime is active
    authStore,    \* the auth store's state (the Auth State Projection)
    now,          \* the wall clock, in seconds
    calls,        \* public calls made so far
    loggedOut,    \* logout cleared the storage and no public call came since
    last          \* what the last call or callback of the service did and
                  \* returned (getUserInfo, a pure read, leaves it alone)

vars == << kc, nextClient, storage, parsedToken, timerId, timers, pending,
           pinia, authStore, now, calls, loggedOut, last >>

\* ----------------------------------------------------------- the IdP client
\* `new Keycloak(config)`: no tokens, not authenticated, its login function
\* the provider's own (idpHint: the hint a patched login closes over).
NoKc ==
    [ id |-> 0, authenticated |-> FALSE, token |-> 0, refreshToken |-> 0,
      idToken |-> 0, tokenExp |-> Undefined, refreshExp |-> Undefined,
      timeSkew |-> Undefined, by |-> "", idpHint |-> Undefined ]

\* The client after `new Keycloak(...)` and the synchronous part of
\* init(kcOptions): the options carry timeSkew: 0.
NewKc(id) == [ NoKc EXCEPT !.id = id, !.timeSkew = Some(0) ]

\* What the provider hands out on a successful init or refresh: the access
\* and id token, a refresh token or none, the parsed expiries and the clock
\* skew measured on the response.
Grants ==
    { g \in [ token : Tokens, refreshToken : TokenOrNone, idToken : TokenOrNone,
              tokenExp : { Some(e) : e \in ExpValues },
              refreshExp : { Undefined } \cup { Some(e) : e \in RefreshExpValues },
              timeSkew : { Some(s) : s \in SkewValues } ] :
        /\ g.refreshToken \in {0, g.token}
        /\ g.idToken = g.token
        /\ (g.refreshToken = 0) <=> (g.refreshExp = Undefined) }

\* The client once the provider's answer carries grant g.
Granted(c, g) ==
    [ c EXCEPT !.authenticated = TRUE, !.token = g.token,
               !.refreshToken = g.refreshToken, !.idToken = g.idToken,
               !.tokenExp = g.tokenExp, !.refreshExp = g.refreshExp,
               !.timeSkew = g.timeSkew ]

\* ------------------------------------------------------------ token decoder
EmptyClaims == [ sub |-> 0, loginSource |-> "", roles |-> Undefined ]

LoginSourceOf(t) == IF t % 2 = 1 THEN "BCSC" ELSE "IDIR"
RolesOf(t) == IF t % 2 = 1 THEN {"staff"} ELSE {"admin", "staff"}

\* decodeKCToken(): the claims of the access token in session storage, or
\* the empty record when none is stored.
DecodeToken(raw) ==
    IF raw = 0 THEN EmptyClaims
    ELSE [ sub |-> raw, loginSource |-> LoginSourceOf(raw),
           roles |-> Some(RolesOf(raw)) ]

\* --------------------------------------------------------- session storage
EmptyStorage ==
    [ token |-> 0, refreshToken |-> 0, idToken |-> 0, synced |-> "absent",
      preventSync |-> FALSE ]

\* The Session Store Adapter (ConfigHelper): set, remove and clear.
AddToSession(s, key, value) == [ s EXCEPT ![key] = value ]
RemoveFromSession(s, key) == [ s EXCEPT ![key] = EmptyStorage[key] ]
ClearSessionStorage == EmptyStorage

\* Lines 36 and 50-52, 91 and 98-100, 172-174: the stored tokens kcOptions
\* carries (`getFromSession(key) || undefined`; 0 is undefined), with onLoad.
InitOptions(s, onLoad) ==
    [ onLoad |-> onLoad, token |-> s.token, refreshToken |-> s.refreshToken,
      idToken |-> s.idToken ]

\* Lines 273-275: the three token keys are removed.
RemoveTokens(s) ==
    RemoveFromSession(
        RemoveFromSession(RemoveFromSession(s, "token"), "idToken"),
        "refreshToken")

TokensAbsent(s) == s.token = 0 /\ s.refreshToken = 0 /\ s.idToken = 0

\* -------------------------------------------------------------- auth store
EmptyAuthStore ==
    [ token |-> 0, idToken |-> 0, refreshToken |-> 0, kcGuid |-> 0,
      loginSource |-> "" ]

\* ---------------------------------------------------------- the last step
NoCall == Undefined

\* options: the kcOptions a step handed to kc.init; login: the options that
\* reached the provider's own login function.
Last(op, input, result) ==
    [ op |-> op, input |-> input, result |-> result, stale |-> FALSE,
      call |-> NoCall, armed |-> FALSE, unhandled |-> FALSE,
      options |-> Undefined, login |-> Undefined ]

\* --------------------------------------------------------------- scheduling
\* Lines 212-216: the refresh token's remaining validity, -1 when the client,
\* its skew or its parsed refresh token is missing.
RefreshTokenExpiresIn(c, t) ==
    IF c.id # 0 /\ IsDefined(c.timeSkew) /\ IsDefined(c.refreshExp)
    THEN Val(c.refreshExp) - t + Val(c.timeSkew)
    ELSE -1

\* Lines 220-223: the access token's remaining validity, -1 when the client,
\* its parsed token, a truthy exp or its skew is missing.
ExpiresIn(c, t) ==
    IF c.id # 0 /\ IsDefined(c.tokenExp) /\ Val(c.tokenExp) # 0
       /\ IsDefined(c.timeSkew)
    THEN Val(c.tokenExp) - t + Val(c.timeSkew)
    ELSE -1

\* A scheduleRefreshToken that lost its second check (lines 224-226): only
\* the refresh token's validity decides.
ScheduleThrowsRefreshOnly(c, t) == RefreshTokenExpiresIn(c, t) < 0

\* Lines 217-226: scheduleRefreshToken throws unless both are non-negative.
ScheduleThrows(c, t) ==
    RefreshTokenExpiresIn(c, t) < 0 \/ ExpiresIn(c, t) < 0

\* Line 227: the timer's delay in milliseconds.
RefreshInMilliSeconds(c, t, earlyMs) == (ExpiresIn(c, t) * 1000) - earlyMs

\* Line 207: the early margin in milliseconds.
EarlyMilliseconds(refreshEarlyTime) ==
    Max(REFRESH_ATTEMPT_INTERVAL, refreshEarlyTime) * 1000

\* setTimeout's handle: the smallest one no pending timer holds.
FreshHandle(ts) ==
    CHOOSE h \in 1 .. (Cardinality(ts) + 1) : \A x \in ts : x.id # h

\* Lines 230-245: setTimeout(callback, refreshInMilliSeconds).  The previous
\* handle is not cleared.
ArmTimer(ts, c, t, earlyMs) ==
    ts \cup { [ id |-> FreshHandle(ts), early |-> earlyMs,
                due |-> (t * 1000) + RefreshInMilliSeconds(c, t, earlyMs) ] }

\* clearTimeout(handle).
ClearTimeout(ts, h) == { x \in ts : x.id # h }

\* -------------------------------------------------------- syncSessionStorage
\* Lines 248-263: each token the client holds is written, an absent one
\* leaves the stored value alone; session-synced is set.
SyncSessionStorage(s, c) ==
    IF c.id # 0
    THEN LET s1 == IF c.token # 0 THEN AddToSession(s, "token", c.token)
                   ELSE s
             s2 == IF c.refreshToken # 0
                   THEN AddToSession(s1, "refreshToken", c.refreshToken)
                   ELSE s1
             s3 == IF c.idToken # 0 THEN AddToSession(s2, "idToken", c.idToken)
                   ELSE s2
         IN  AddToSession(s3, "synced", "true")
    ELSE AddToSession(s, "synced", "false")

\* Lines 265-276, clearSession: the store is cleared when Pinia is active.
ClearedStore(st, active) == IF active THEN EmptyAuthStore ELSE st

\* Lines 73-76, getUserInfo: the cache is filled when it is undefined or an
\* empty object, from the access token in session storage; otherwise kept.
CachedClaims(pt, s) == IF pt = EmptyClaims THEN DecodeToken(s.token) ELSE pt

\* Lines 193-204, syncSessionAndScheduleTokenRefresh on client c: what it
\* leaves in storage, timers, timer handle and store, and how its promise
\* settles ("token": resolved with kc.token; "NOT_AUTHENTICATED": resolved
\* with that Error value; "RefreshTokenExpired": rejected by the throw of
\* scheduleRefreshToken, after the tokens were written).
SyncAndSchedule(c, s, ts, tid, st, t, isScheduleRefresh) ==
    IF c.authenticated
    THEN LET arm == isScheduleRefresh /\ ~ScheduleThrows(c, t)
         IN  [ storage |-> SyncSessionStorage(s, c),
               timers |-> IF arm
                          THEN ArmTimer(ts, c, t, EarlyMilliseconds(0))
                          ELSE ts,
               timerId |-> IF arm THEN FreshHandle(ts) ELSE tid,
               authStore |-> st,
               result |-> IF isScheduleRefresh /\ ScheduleThrows(c, t)
                          THEN "RefreshTokenExpired" ELSE "token",
               armed |-> arm ]
    ELSE [ storage |-> RemoveTokens(s), timers |-> ts, timerId |-> tid,
           authStore |-> ClearedStore(st, pinia),
           result |-> "NOT_AUTHENTICATED", armed |-> FALSE ]

\* Lines 59-68, initSession's store update: with an active store the client's
\* tokens and the user's id and login source are projected.
ProjectedStore(st, c, claims) ==
    IF pinia
    THEN [ token |-> c.token, idToken |-> c.idToken,
           refreshToken |-> c.refreshToken, kcGuid |-> claims.sub,
           loginSource |-> claims.loginSource ]
    ELSE st

\* ------------------------------------------------------ provider promises
FreshRequest(ps) ==
    CHOOSE h \in 1 .. (Cardinality(ps) + 1) : \A x \in ps : x.id # h

\* A provider promise in flight: which client it was issued on and what the
\* attached handlers close over.
Request(ps, kind, client, sched, early, forced, canRefresh) ==
    [ id |-> FreshRequest(ps), kind |-> kind, client |-> client,
      sched |-> sched, early |-> early, forced |-> forced,
      canRefresh |-> canRefresh, resolved |-> FALSE ]

AnyGrant == CHOOSE g \in Grants : TRUE

\* The grants the provider may answer request p with: the answer only
\* changes the client the request was issued on.
GrantsFor(p) == IF p.client = kc.id THEN Grants ELSE { AnyGrant }

\* The current client after the provider settles init request p.
AfterInit(c, p, authenticated, g) ==
    IF p.client # c.id THEN c
    ELSE IF authenticated THEN Granted(c, g)
    ELSE [ c EXCEPT !.authenticated = FALSE ]

\* The current client after the provider settles updateToken request p.
AfterUpdate(c, p, refreshed, g) ==
    IF p.client = c.id /\ refreshed THEN Granted(c, g) ELSE c

\* Session storage outlives a page load: the page starts with an empty
\* storage or with the tokens an earlier page of the session left there.
StoredSessions ==
    { EmptyStorage } \cup
    { [ EmptyStorage EXCEPT !.token = t, !.idToken = t, !.synced = "true",
                            !.refreshToken = IF withRefresh THEN t ELSE 0 ] :
        t \in Tokens, withRefresh \in BOOLEAN }

Init ==
    /\ kc = NoKc
    /\ nextClient = 0
    /\ storage \in StoredSessions
    /\ parsedToken = EmptyClaims
    /\ timerId = 0
    /\ timers = {}
    /\ pending = {}
    /\ pinia = FALSE
    /\ authStore = EmptyAuthStore
    /\ now = 0
    /\ calls = 0
    /\ loggedOut = FALSE
    /\ last = Last("init", Undefined, "")

\* The clock advances.
Tick ==
    /\ now < MaxNow
    /\ now' = now + 1
    /\ UNCHANGED << kc, nextClient, storage, parsedToken, timerId, timers,
                    pending, pinia, authStore, calls, loggedOut, last >>

\* The application installs its Pinia store runtime.
ActivatePinia ==
    /\ ~pinia
    /\ pinia' = TRUE
    /\ UNCHANGED << kc, nextClient, storage, parsedToken, timerId, timers,
                    pending, authStore, now, calls, loggedOut, last >>

\* Lines 34-56, initializeKeyCloak(idpHint): clearSession runs first (its
\* body has no await, so it has removed the tokens when it returns), then the
\* stored tokens are read, the client is built and its login patched.
InitializeKeyCloak(idpHint) ==
    /\ calls < MaxCalls
    /\ calls' = calls + 1
    /\ loggedOut' = FALSE
    /\ authStore' = ClearedStore(authStore, pinia)
    /\ storage' = RemoveTokens(storage)
    /\ nextClient' = nextClient + 1
    /\ kc' = [ NewKc(nextClient + 1) EXCEPT !.by = "initializeKeyCloak",
                                           !.idpHint = Some(idpHint) ]
    /\ pending' = pending \cup
          { Request(pending, "initKC", nextClient + 1, FALSE, 0, FALSE, FALSE) }
    /\ last' = [ Last("initializeKeyCloak", Some(idpHint), "pending")
                 EXCEPT !.options =
                     Some(InitOptions(RemoveTokens(storage), "login-required")) ]
    /\ UNCHANGED << parsedToken, timerId, timers, pinia, now >>

\* The provider settles the init promise initializeKeyCloak returned; the
\* service attaches no handler to it.
InitKCSettle(p, ok, authenticated, g) ==
    /\ p.kind = "initKC"
    /\ pending' = pending \ {p}
    /\ kc' = IF ok THEN AfterInit(kc, p, authenticated, g) ELSE kc
    /\ last' = [ Last("initKCSettled", Undefined,
                      IF ~ok THEN "rejected"
                      ELSE IF authenticated THEN "true" ELSE "false")
                 EXCEPT !.stale = (p.client # kc.id) ]
    /\ UNCHANGED << nextClient, storage, parsedToken, timerId, timers, pinia,
                    authStore, now, calls, loggedOut >>

\* Lines 167-191, initializeToken(isScheduleRefresh, forceLogin), up to the
\* call of kc.init.
InitializeToken(isScheduleRefresh, forceLogin) ==
    /\ calls < MaxCalls
    /\ calls' = calls + 1
    /\ loggedOut' = FALSE
    /\ nextClient' = nextClient + 1
    /\ kc' = [ NewKc(nextClient + 1) EXCEPT !.by = "initializeToken" ]
    /\ storage' = AddToSession(storage, "synced", "false")
    /\ pending' = pending \cup
          { Request(pending, "initToken", nextClient + 1, isScheduleRefresh,
                    0, FALSE, FALSE) }
    /\ LET onLoad == IF forceLogin THEN "login-required" ELSE "check-sso"
       IN  last' = [ Last("initializeToken", Some(onLoad), "pending")
                     EXCEPT !.options = Some(InitOptions(storage, onLoad)) ]
    /\ UNCHANGED << parsedToken, timerId, timers, pinia, authStore, now >>

\* Lines 182-186: kc.init resolved; the handler syncs and schedules on
\* this.kc and resolves initializeToken's promise with the outcome.
InitTokenResolve(p, authenticated, g) ==
    /\ p.kind = "initToken"
    /\ LET c == AfterInit(kc, p, authenticated, g)
           f == SyncAndSchedule(c, storage, timers, timerId, authStore, now,
                                p.sched)
       IN  /\ kc' = c
           /\ storage' = f.storage
           /\ timers' = f.timers
           /\ timerId' = f.timerId
           /\ authStore' = f.authStore
           /\ last' = [ Last("initTokenResolved",
                             Some(IF authenticated THEN "true" ELSE "false"),
                             f.result)
                        EXCEPT !.stale = (p.client # kc.id),
                               !.armed = f.armed ]
    /\ pending' = pending \ {p}
    /\ UNCHANGED << nextClient, parsedToken, pinia, now, calls, loggedOut >>

\* Lines 187-189: kc.init rejected; initializeToken rejects with a wrapped
\* error.
InitTokenReject(p) ==
    /\ p.kind = "initToken"
    /\ pending' = pending \ {p}
    /\ last' = [ Last("initTokenRejected", Undefined, "Could not Initialize KC")
                 EXCEPT !.stale = (p.client # kc.id) ]
    /\ UNCHANGED << kc, nextClient, storage, parsedToken, timerId, timers,
                    pinia, authStore, now, calls, loggedOut >>

\* A logout that proceeds whenever any of the three tokens is stored.
LogoutProceedsAnyToken(s) ==
    s.token # 0 \/ s.refreshToken # 0 \/ s.idToken # 0

\* Lines 91-92: logout proceeds only with a stored access token.
LogoutProceeds(s) == s.token # 0

\* Lines 90-107, logout(redirectUrl) up to the call of kc.init: nothing
\* happens without a stored access token; otherwise a fresh client is built,
\* the whole session storage is cleared and the guard flag is set.
Logout ==
    /\ calls < MaxCalls
    /\ calls' = calls + 1
    /\ IF LogoutProceeds(storage)
       THEN /\ nextClient' = nextClient + 1
            /\ kc' = [ NewKc(nextClient + 1) EXCEPT !.by = "logout" ]
            /\ storage' = AddToSession(ClearSessionStorage, "preventSync", TRUE)
            /\ pending' = pending \cup
                  { Request(pending, "logoutInit", nextClient + 1, FALSE, 0,
                            FALSE, FALSE) }
            /\ loggedOut' = TRUE
            /\ last' = [ Last("logout", Undefined, "pending")
                         EXCEPT !.options =
                             Some(InitOptions(storage, "login-required")) ]
       ELSE /\ last' = Last("logout", Undefined, "undefined")
            /\ UNCHANGED << kc, nextClient, storage, pending, loggedOut >>
    /\ UNCHANGED << parsedToken, timerId, timers, pinia, authStore, now >>

\* Lines 110-125: logout's kc.init resolved.  The promise is resolved at once
\* when not authenticated; either way kc.logout is called on this.kc.
LogoutInitResolve(p, authenticated, g) ==
    /\ p.kind = "logoutInit"
    /\ kc' = AfterInit(kc, p, authenticated, g)
    /\ pending' = (pending \ {p}) \cup
          { [ Request(pending \ {p}, "kcLogout", kc.id, FALSE, 0, FALSE,
                      FALSE) EXCEPT !.resolved = ~authenticated ] }
    /\ last' = [ Last("logoutInitResolved",
                      Some(IF authenticated THEN "true" ELSE "false"),
                      IF authenticated THEN "pending" ELSE "resolved")
                 EXCEPT !.stale = (p.client # kc.id) ]
    /\ UNCHANGED << nextClient, storage, parsedToken, timerId, timers, pinia,
                    authStore, now, calls, loggedOut >>

\* Lines 126-128: logout's kc.init rejected; logout rejects.
LogoutInitReject(p) ==
    /\ p.kind = "logoutInit"
    /\ pending' = pending \ {p}
    /\ last' = [ Last("logoutInitRejected", Undefined, "rejected")
                 EXCEPT !.stale = (p.client # kc.id) ]
    /\ UNCHANGED << kc, nextClient, storage, parsedToken, timerId, timers,
                    pinia, authStore, now, calls, loggedOut >>

\* Lines 119-124: the provider's logout call settled; resolve() or
\* reject(error), without effect on a promise that is already resolved
\* (p.resolved records that line 112 resolved it).
KcLogoutSettle(p, ok) ==
    /\ p.kind = "kcLogout"
    /\ pending' = pending \ {p}
    /\ last' = [ Last("kcLogoutSettled", Some(IF ok THEN "ok" ELSE "error"),
                      IF p.resolved \/ ok THEN "resolved" ELSE "rejected")
                 EXCEPT !.stale = (p.client # kc.id) ]
    /\ UNCHANGED << kc, nextClient, storage, parsedToken, timerId, timers,
                    pinia, authStore, now, calls, loggedOut >>

\* Line 135: refreshToken returns at once unless forced, when the client has
\* no truthy parsed exp or no truthy timeSkew.
RefreshIsNoop(c, isForceRefresh) ==
    /\ ~isForceRefresh
    /\ \/ c.id = 0
       \/ ~IsDefined(c.tokenExp)
       \/ Val(c.tokenExp) = 0
       \/ ~IsDefined(c.timeSkew)
       \/ Val(c.timeSkew) = 0

\* Line 139: the minValidity handed to updateToken.
TokenExpiresIn(c, t, isForceRefresh) ==
    IF isForceRefresh THEN ForceMinValidity
    ELSE Val(c.tokenExp) - t + Val(c.timeSkew) + RefreshBuffer

\* Lines 133-154, refreshToken(isForceRefresh) up to the call of updateToken.
\* The promise of updateToken is not returned: refreshToken's own promise
\* resolves with undefined at once.
RefreshToken(isForceRefresh) ==
    /\ calls < MaxCalls
    /\ calls' = calls + 1
    /\ loggedOut' = FALSE
    /\ IF RefreshIsNoop(kc, isForceRefresh)
       THEN /\ last' = Last("refreshToken", Some(isForceRefresh), "undefined")
            /\ UNCHANGED pending
       ELSE IF kc.id # 0
       THEN /\ pending' = pending \cup
                  { Request(pending, "updateRefresh", kc.id, FALSE, 0,
                            isForceRefresh, kc.refreshToken # 0) }
            /\ last' = [ Last("refreshToken", Some(isForceRefresh), "undefined")
                         EXCEPT !.call = Some(TokenExpiresIn(kc, now,
                                                             isForceRefresh)) ]
       ELSE /\ last' = Last("refreshToken", Some(isForceRefresh),
                            "Could not refresh Token:No Kc Instance")
            /\ UNCHANGED pending
    /\ UNCHANGED << kc, nextClient, storage, parsedToken, timerId, timers,
                    pinia, authStore, now >>

\* Lines 58-71, initSession on client c: the store is updated (getUserInfo
\* fills the claims cache from the token stored so far), then the session is
\* synced and the timer scheduled.
InitSessionOutcome(c) ==
    LET claims == IF pinia THEN CachedClaims(parsedToken, storage)
                  ELSE parsedToken
        f == SyncAndSchedule(c, storage, timers, timerId,
                             ProjectedStore(authStore, c, claims), now, TRUE)
    IN  f @@ [ parsedToken |-> claims ]

\* Lines 58-71: the application calls initSession.
InitSession ==
    /\ calls < MaxCalls
    /\ calls' = calls + 1
    /\ loggedOut' = FALSE
    /\ LET f == InitSessionOutcome(kc)
       IN  /\ storage' = f.storage
           /\ timers' = f.timers
           /\ timerId' = f.timerId
           /\ authStore' = f.authStore
           /\ parsedToken' = f.parsedToken
           /\ last' = [ Last("initSession", Undefined,
                             IF f.result = "RefreshTokenExpired"
                             THEN "RefreshTokenExpired" ELSE "undefined")
                        EXCEPT !.armed = f.armed ]
    /\ UNCHANGED << kc, nextClient, pending, pinia, now >>

\* Lines 142-146: refreshToken's updateToken resolved.  When refreshed,
\* initSession is called and its promise dropped: a rejection of it has no
\* handler.
UpdateRefreshResolve(p, refreshed, g) ==
    /\ p.kind = "updateRefresh"
    /\ p.canRefresh
    /\ p.forced => refreshed
    /\ pending' = pending \ {p}
    /\ LET c == AfterUpdate(kc, p, refreshed, g)
           f == InitSessionOutcome(c)
       IN  /\ kc' = c
           /\ IF refreshed
              THEN /\ storage' = f.storage
                   /\ timers' = f.timers
                   /\ timerId' = f.timerId
                   /\ authStore' = f.authStore
                   /\ parsedToken' = f.parsedToken
                   /\ last' = [ Last("updateRefreshResolved", Some(TRUE),
                                     f.result)
                                EXCEPT !.stale = (p.client # kc.id),
                                       !.armed = f.armed,
                                       !.unhandled =
                                           (f.result = "RefreshTokenExpired") ]
              ELSE /\ last' = [ Last("updateRefreshResolved", Some(FALSE),
                                     "undefined")
                                EXCEPT !.stale = (p.client # kc.id) ]
                   /\ UNCHANGED << storage, timers, timerId, authStore,
                                   parsedToken >>
    /\ UNCHANGED << nextClient, pinia, now, calls, loggedOut >>

\* Lines 147-150: refreshToken's updateToken rejected; the session is
\* cleared and the Error the handler returns is dropped.
UpdateRefreshReject(p) ==
    /\ p.kind = "updateRefresh"
    /\ pending' = pending \ {p}
    /\ authStore' = ClearedStore(authStore, pinia)
    /\ storage' = RemoveTokens(storage)
    /\ last' = [ Last("updateRefreshRejected", Undefined,
                      "Could not refresh Token")
                 EXCEPT !.stale = (p.client # kc.id) ]
    /\ UNCHANGED << kc, nextClient, parsedToken, timerId, timers, pinia, now,
                    calls, loggedOut >>

\* Lines 206-209 and 211-229, scheduleRefreshTimer(refreshEarlyTime) called
\* by the application: it throws, or arms a timer and stores its handle.
ScheduleRefreshTimer(refreshEarlyTime) ==
    /\ calls < MaxCalls
    /\ calls' = calls + 1
    /\ loggedOut' = FALSE
    /\ IF ScheduleThrows(kc, now)
       THEN /\ last' = Last("scheduleRefreshTimer", Some(refreshEarlyTime),
                            "RefreshTokenExpired")
            /\ UNCHANGED << timers, timerId >>
       ELSE /\ timers' = ArmTimer(timers, kc, now,
                                  EarlyMilliseconds(refreshEarlyTime))
            /\ timerId' = FreshHandle(timers)
            /\ last' = [ Last("scheduleRefreshTimer", Some(refreshEarlyTime),
                              "undefined")
                         EXCEPT !.armed = TRUE ]
    /\ UNCHANGED << kc, nextClient, storage, parsedToken, pending, pinia,
                    authStore, now >>

\* A re-arm that falls back to the default early margin.
ReArmDefaultMargin(ts, c, t, earlyMs) ==
    ArmTimer(ts, c, t, EarlyMilliseconds(0))

\* Line 239: the timer's handler re-arms with the margin it closed over.
ReArm(ts, c, t, earlyMs) == ArmTimer(ts, c, t, earlyMs)

\* Lines 230-233: a timer is due; its callback calls updateToken(-1) on
\* this.kc, whichever client that is by now.
TimerFire(t) ==
    /\ t \in timers
    /\ now * 1000 >= t.due
    /\ timers' = timers \ {t}
    /\ pending' = pending \cup
          { Request(pending, "updateTimer", kc.id, FALSE, t.early, TRUE,
                    kc.refreshToken # 0) }
    /\ last' = [ Last("timerFired", Undefined, "")
                 EXCEPT !.call = Some(ForceMinValidity) ]
    /\ UNCHANGED << kc, nextClient, storage, parsedToken, timerId, pinia,
                    authStore, now, calls, loggedOut >>

\* Lines 234-241 (and 242-244 for a throw of the handler): the timer's
\* updateToken resolved; the tokens of this.kc are written and the timer is
\* re-armed with the same early margin.  A throw of scheduleRefreshToken is
\* caught by the chained catch, which clears this.timerId.
UpdateTimerResolve(p, g) ==
    /\ p.kind = "updateTimer"
    /\ p.canRefresh
    /\ pending' = pending \ {p}
    /\ LET c == AfterUpdate(kc, p, TRUE, g)
           throws == ScheduleThrows(c, now)
       IN  /\ kc' = c
           /\ storage' = SyncSessionStorage(storage, c)
           /\ timers' = IF throws THEN ClearTimeout(timers, timerId)
                        ELSE ReArm(timers, c, now, p.early)
           /\ timerId' = IF throws THEN timerId ELSE FreshHandle(timers)
           /\ last' = [ Last("updateTimerResolved", Some(TRUE),
                             IF throws THEN "RefreshTokenExpired"
                             ELSE "undefined")
                        EXCEPT !.stale = (p.client # kc.id),
                               !.armed = ~throws ]
    /\ UNCHANGED << nextClient, parsedToken, pinia, authStore, now, calls,
                    loggedOut >>

\* Lines 242-244: the timer's updateToken rejected; clearTimeout(this.timerId).
UpdateTimerReject(p) ==
    /\ p.kind = "updateTimer"
    /\ pending' = pending \ {p}
    /\ timers' = ClearTimeout(timers, timerId)
    /\ last' = [ Last("updateTimerRejected", Undefined, "undefined")
                 EXCEPT !.stale = (p.client # kc.id) ]
    /\ UNCHANGED << kc, nextClient, storage, parsedToken, timerId, pinia,
                    authStore, now, calls, loggedOut >>

\* Lines 77-87: the record getUserInfo returns when called in this state.
UserInfo ==
    LET claims == CachedClaims(parsedToken, storage)
    IN  [ keycloakGuid |-> claims.sub, roles |-> claims.roles,
          loginSource |-> claims.loginSource ]

\* Lines 73-88, getUserInfo called by the application: it returns UserInfo
\* and leaves the claims it decoded in the cache.
GetUserInfo ==
    /\ parsedToken' = CachedClaims(parsedToken, storage)
    /\ UNCHANGED << kc, nextClient, storage, timerId, timers, pending, pinia,
                    authStore, now, calls, loggedOut, last >>

\* Lines 21-23, the isInitialized getter: !!this.kc.
IsInitialized == kc.id # 0

Next ==
    \/ Tick
    \/ ActivatePinia
    \/ \E h \in IdpHints : InitializeKeyCloak(h)
    \/ \E p \in pending, ok \in BOOLEAN, a \in BOOLEAN :
          \E g \in GrantsFor(p) : InitKCSettle(p, ok, a, g)
    \/ \E s \in BOOLEAN, f \in BOOLEAN : InitializeToken(s, f)
    \/ \E p \in pending, a \in BOOLEAN :
          \E g \in GrantsFor(p) : InitTokenResolve(p, a, g)
    \/ \E p \in pending : InitTokenReject(p)
    \/ Logout
    \/ \E p \in pending, a \in BOOLEAN :
          \E g \in GrantsFor(p) : LogoutInitResolve(p, a, g)
    \/ \E p \in pending : LogoutInitReject(p)
    \/ \E p \in pending, ok \in BOOLEAN : KcLogoutSettle(p, ok)
    \/ \E f \in BOOLEAN : RefreshToken(f)
    \/ InitSession
    \/ \E p \in pending, r \in BOOLEAN :
          \E g \in GrantsFor(p) : UpdateRefreshResolve(p, r, g)
    \/ \E p \in pending : UpdateRefreshReject(p)
    \/ \E e \in EarlyInputs : ScheduleRefreshTimer(e)
    \/ \E t \in timers : TimerFire(t)
    \/ \E p \in pending : \E g \in GrantsFor(p) : UpdateTimerResolve(p, g)
    \/ \E p \in pending : UpdateTimerReject(p)
    \/ GetUserInfo

Spec == Init /\ [][Next]_vars

\* ------------------------------------------- the scheduling function alone
\* The states a KeycloakInstance may be in when the application calls
\* scheduleRefreshTimer: no client at all, or a client whose parsed access
\* token, parsed refresh token and clock skew are each present or undefined.
ScheduleExpValues == { Undefined } \cup { Some(e) : e \in 0 .. (MaxNow + 1) }
ScheduleSkewValues == { Undefined } \cup { Some(k) : k \in {-1, 0, 1} }

ScheduleClients ==
    { NoKc } \cup
    { [ NoKc EXCEPT !.id = 1, !.by = "initializeToken",
                    !.authenticated = TRUE, !.token = 1, !.idToken = 1,
                    !.refreshToken = IF re = Undefined THEN 0 ELSE 1,
                    !.tokenExp = te, !.refreshExp = re, !.timeSkew = sk ] :
        te \in ScheduleExpValues, re \in ScheduleExpValues,
        sk \in ScheduleSkewValues }

InitSchedule ==
    /\ kc \in ScheduleClients
    /\ nextClient = kc.id
    /\ storage = EmptyStorage
    /\ parsedToken = EmptyClaims
    /\ timerId = 0
    /\ timers = {}
    /\ pending = {}
    /\ pinia = FALSE
    /\ authStore = EmptyAuthStore
    /\ now \in 0 .. MaxNow
    /\ calls = 0
    /\ loggedOut = FALSE
    /\ last = Last("init", Undefined, "")

NextSchedule ==
    \/ Tick
    \/ \E e \in EarlyInputs : ScheduleRefreshTimer(e)

SpecSchedule == InitSchedule /\ [][NextSchedule]_vars

\* ------------------------------------------------------------------ claims
\* C1: in every reachable state at most one refresh timer is pending.
C1_AtMostOnePendingTimer == Cardinality(timers) <= 1

\* C2: once logout has cleared the storage and set the guard flag, no token
\* is written back by a callback or timer that was in flight: the three token
\* keys stay absent until the application makes its next call.
C2_LogoutTokensStayAbsent ==
    (loggedOut /\ last.op \in {"updateRefreshResolved", "updateTimerResolved"})
        => TokensAbsent(storage)

\* A provider promise issued on an earlier client settles in this step.
StaleCompletion == pending' # pending /\ last'.stale

\* C3: after initializeToken or initializeKeyCloak has built a newer client,
\* the completion of a flow of an earlier client neither writes to session
\* storage nor clears the session.
C3_StaleCompletionInert ==
    [][ (StaleCompletion /\ kc.by \in {"initializeToken", "initializeKeyCloak"})
        => (storage' = storage /\ authStore' = authStore) ]_vars

\* C4: when updateToken rejects, from refreshToken or from a fired timer, the
\* three persisted tokens are removed and no refresh timer is left pending.
C4_RejectedRefreshClearsSession ==
    last.op \in {"updateRefreshRejected", "updateTimerRejected"}
        => (TokensAbsent(storage) /\ timers = {})

\* C5: when scheduling, after an init or a refresh or on a re-arm, finds the
\* refresh token's validity elapsed, the three persisted tokens are absent
\* afterwards and no timer was armed.
C5_ExpiredRefreshTokenClearsSession ==
    ( /\ last.op \in {"initTokenResolved", "updateRefreshResolved",
                      "updateTimerResolved"}
      /\ last.result = "RefreshTokenExpired"
      /\ IsDefined(kc.refreshExp)
      /\ RefreshTokenExpiresIn(kc, now) < 0 )
        => (TokensAbsent(storage) /\ ~last.armed)

\* The claim's condition for arming: client, skew and both expiries are
\* available and neither remaining validity is negative.
BothValid(c, t) ==
    /\ c.id # 0
    /\ IsDefined(c.timeSkew)
    /\ IsDefined(c.refreshExp)
    /\ IsDefined(c.tokenExp)
    /\ Val(c.refreshExp) - t + Val(c.timeSkew) >= 0
    /\ Val(c.tokenExp) - t + Val(c.timeSkew) >= 0

\* The application calls scheduleRefreshTimer in this step.
ScheduleCall == calls' = calls + 1 /\ last'.op = "scheduleRefreshTimer"

C7_UserInfoOfCurrentToken ==
    UserInfo.keycloakGuid = DecodeToken(storage.token).sub

\* C8: when the provider's init completes with authenticated = false,
\* initializeToken's handler leaves the three tokens removed, arms no timer
\* and resolves with the NOT_AUTHENTICATED error value.
C8_NotAuthenticatedInit ==
    (last.op = "initTokenResolved" /\ last.input = Some("false"))
        => /\ TokensAbsent(storage)
           /\ ~last.armed
           /\ last.result = "NOT_AUTHENTICATED"

\* The claim's reference for refreshToken on an existing client: -1 when
\* forced; no call when the parsed expiry or the skew is missing; otherwise
\* tokenExpiry - now + skew + 100, a skew of 0 included.
RefMinValidity(c, t, isForceRefresh) ==
    IF c.id = 0 THEN NoCall
    ELSE IF isForceRefresh THEN Some(-1)
    ELSE IF ~IsDefined(c.tokenExp) \/ ~IsDefined(c.timeSkew) THEN NoCall
    ELSE Some(Val(c.tokenExp) - t + Val(c.timeSkew) + 100)

\* C9: the updateToken call refreshToken makes matches the reference for
\* every input.
C9_RefreshCallMatchesReference ==
    [][ (calls' = calls + 1 /\ last'.op = "refreshToken")
        => last'.call = RefMinValidity(kc, now, Val(last'.input)) ]_vars

\* C10: no step of a refreshToken flow leaves a rejected promise without a
\* handler.
C10_NoUnhandledRejection == ~last.unhandled

\* C11: the promise logout returns (a stored access token given) is resolved
\* only once the provider's logout call has completed, whether the preceding
\* init reported authenticated or not; when the provider's logout call
\* rejects, the promise rejects and was never resolved.
C11_LogoutResolvesAfterProviderLogout ==
    /\ \A p \in pending : p.kind = "kcLogout" => ~p.resolved
    /\ (last.op = "kcLogoutSettled" /\ last.input = Some("error"))
           => last.result = "rejected"

\* The application calls initializeKeyCloak in this step.
InitKeyCloakCall == calls' = calls + 1 /\ last'.op = "initializeKeyCloak"

\* C14: when access, refresh and id token were persisted before the call,
\* the init options initializeKeyCloak hands to the provider carry them.
C14_InitResumesStoredTokens ==
    [][ ( /\ InitKeyCloakCall
          /\ storage.token # 0
          /\ storage.refreshToken # 0
          /\ storage.idToken # 0 )
        => last'.options = Some(InitOptions(storage, "login-required")) ]_vars

\* The provider's init fails inside the initializeToken that built the
\* current client.
InitTokenFails ==
    pending' # pending /\ last'.op = "initTokenRejected" /\ ~last'.stale

\* C16: when the provider's init fails inside initializeToken, the promise
\* rejects with the wrapped error and the session is left uninitialized:
\* isInitialized is false, the step writes no token, session-synced is not
\* true and no timer is armed.
C16_FailedInitLeavesUninitialized ==
    [][ InitTokenFails =>
          /\ last'.result = "Could not Initialize KC"
          /\ ~IsInitialized'
          /\ storage'.token = storage.token
          /\ storage'.refreshToken = storage.refreshToken
          /\ storage'.idToken = storage.idToken
          /\ storage'.synced # "true"
          /\ timers' = timers ]_vars

\* A sync step of the current client has just run: the handler of its init,
\* of its on-demand refresh or of its timer's refresh wrote the session.
SyncStepDone ==
    /\ ~last.stale
    /\ kc.authenticated
    /\ \/ last.op = "initTokenResolved" /\ last.input = Some("true")
       \/ last.op = "updateRefreshResolved" /\ last.input = Some(TRUE)
       \/ last.op = "updateTimerResolved"

\* A clearSession has just run: not authenticated, or a rejected refresh.
ClearSessionDone ==
    \/ last.op \in {"initTokenResolved", "updateRefreshResolved"}
          /\ last.result = "NOT_AUTHENTICATED"
    \/ last.op = "updateRefreshRejected"

\* C17: after every successful init or refresh sync step each of the three
\* token keys in session storage holds the client's current token (none when
\* the client holds none), and after clearSession all three are absent.
C17_StorageMirrorsClient ==
    /\ SyncStepDone =>
          /\ storage.token = kc.token
          /\ storage.refreshToken = kc.refreshToken
          /\ storage.idToken = kc.idToken
    /\ ClearSessionDone => TokensAbsent(storage)

\* C20: when the promise refreshToken returned has settled, the updateToken
\* call it issued has completed: none is in flight right after the call.
C20_RefreshSettlesAfterProvider ==
    (last.op = "refreshToken" /\ IsDefined(last.call))
        => ~(\E p \in pending : p.kind = "updateRefresh")

\* ------------------------------------------------- logout's guard on its own
\* Session storage belongs to the page, not to the manager: the application
\* writes the same keys through ConfigHelper, so logout may find any of the
\* three tokens, the synced mark and the guard flag present or absent.
AnyStorage ==
    [ token : TokenOrNone, refreshToken : TokenOrNone, idToken : TokenOrNone,
      synced : {"absent", "true", "false"}, preventSync : BOOLEAN ]

\* The clients logout may find: none, or the client of an initializeToken
\* whose init resolved authenticated.
EstablishedClients ==
    { [ Granted(NewKc(1), g) EXCEPT !.by = "initializeToken" ] : g \in Grants }

InitLogout ==
    /\ kc \in { NoKc } \cup EstablishedClients
    /\ nextClient = kc.id
    /\ storage \in AnyStorage
    /\ parsedToken = EmptyClaims
    /\ timers = IF ScheduleThrows(kc, 0) THEN {}
                ELSE ArmTimer({}, kc, 0, EarlyMilliseconds(0))
    /\ timerId = IF ScheduleThrows(kc, 0) THEN 0 ELSE FreshHandle({})
    /\ pending = {}
    /\ pinia = FALSE
    /\ authStore = EmptyAuthStore
    /\ now = 0
    /\ calls = 0
    /\ loggedOut = FALSE
    /\ last = Last("init", Undefined, "")

NextLogout ==
    \/ Tick
    \/ Logout
    \/ \E p \in pending, a \in BOOLEAN :
          \E g \in GrantsFor(p) : LogoutInitResolve(p, a, g)
    \/ \E p \in pending : LogoutInitReject(p)
    \/ \E p \in pending, ok \in BOOLEAN : KcLogoutSettle(p, ok)

SpecLogout == InitLogout /\ [][NextLogout]_vars

\* The application calls logout in this step.
LogoutCall == calls' = calls + 1 /\ last'.op = "logout"

\* C12: logout without a stored access token resolves at once, builds no
\* client and issues no provider call, and leaves session storage (a stored
\* refresh or id token and the guard flag included), the client instance and
\* the timer as they were.
C12_LogoutWithoutTokenIsNoop ==
    [][ (LogoutCall /\ storage.token = 0) =>
          /\ last'.result = "undefined"
          /\ nextClient' = nextClient
          /\ pending' = pending
          /\ storage' = storage
          /\ kc' = kc
          /\ timers' = timers
          /\ timerId' = timerId ]_vars

\* C12, its case reached: logout returned at once although a refresh token,
\* an id token and the guard flag are stored and a client and a timer exist.
C12_Witness ==
    /\ last.op = "logout"
    /\ last.result = "undefined"
    /\ storage.token = 0
    /\ storage.refreshToken # 0
    /\ storage.idToken # 0
    /\ storage.preventSync
    /\ kc.id # 0
    /\ timers # {}
    /\ pending = {}

\* -------------------------------------------------------------- verifyRoles
RoleNames == {"admin", "staff", "banned"}

\* A role list argument: undefined, or an array (some and includes only test
\* membership, so an array is taken as the set of its elements).
RoleLists == { Undefined } \cup { Some(l) : l \in SUBSET RoleNames }

\* Line 160, list.some(role => userInfo.roles.includes(role)): false on an
\* empty list, whose callback never runs; a TypeError when the callback reads
\* includes of undefined roles; otherwise whether a role is shared.
SomeIncluded(list, roles) ==
    IF list = {} THEN "false"
    ELSE IF ~IsDefined(roles) THEN "TypeError"
    ELSE IF list \cap Val(roles) # {} THEN "true" ELSE "false"

\* Line 160, the `!` in front of disabledRoles.some(...): a throw is a throw.
Negated(r) == IF r = "true" THEN "false" ELSE IF r = "false" THEN "true" ELSE r

\* Lines 156-165, verifyRoles(allowedRoles, disabledRoles) for a user whose
\* getUserInfo().roles is `roles`.
VerifyRoles(allowedRoles, disabledRoles, roles) ==
    IF IsDefined(allowedRoles) \/ IsDefined(disabledRoles)
    THEN IF IsDefined(allowedRoles)
         THEN SomeIncluded(Val(allowedRoles), roles)
         ELSE Negated(SomeIncluded(Val(disabledRoles), roles))
    ELSE "true"

\* Lines 156-165: the application calls verifyRoles; getUserInfo (line 159)
\* leaves the claims it decoded in the cache.
VerifyRolesCall(allowedRoles, disabledRoles) ==
    /\ parsedToken' =
          IF IsDefined(allowedRoles) \/ IsDefined(disabledRoles)
          THEN CachedClaims(parsedToken, storage) ELSE parsedToken
    /\ last' = Last("verifyRoles",
                    Some([ allowed |-> allowedRoles, disabled |-> disabledRoles ]),
                    VerifyRoles(allowedRoles, disabledRoles, UserInfo.roles))
    /\ UNCHANGED << kc, nextClient, storage, timerId, timers, pending, pinia,
                    authStore, now, calls, loggedOut >>

\* The claims a decoded access token may carry: any set of realm roles, or
\* none at all (no realm_access in the token).
UserClaims ==
    { EmptyClaims } \cup
    { [ sub |-> t, loginSource |-> LoginSourceOf(t), roles |-> r ] :
        t \in Tokens, r \in { Undefined } \cup { Some(l) : l \in SUBSET RoleNames } }

\* verifyRoles is called by route guards at any time: without a session or
\* with the claims of the session's token in the cache.
InitRoles ==
    /\ kc = NoKc
    /\ nextClient = 0
    /\ storage \in StoredSessions
    /\ parsedToken \in { c \in UserClaims : c.sub \in {0, storage.token} }
    /\ timerId = 0
    /\ timers = {}
    /\ pending = {}
    /\ pinia = FALSE
    /\ authStore = EmptyAuthStore
    /\ now = 0
    /\ calls = 0
    /\ loggedOut = FALSE
    /\ last = Last("init", Undefined, "")

NextRoles ==
    \/ GetUserInfo
    \/ \E a \in RoleLists, d \in RoleLists : VerifyRolesCall(a, d)

SpecRoles == InitRoles /\ [][NextRoles]_vars

\* The user's role set: empty for a user with no roles.
RoleSet(roles) == IF IsDefined(roles) THEN Val(roles) ELSE {}

\* The claim's reference for verifyRoles.
RefVerifyRoles(allowedRoles, disabledRoles, roleSet) ==
    IF ~IsDefined(allowedRoles) /\ ~IsDefined(disabledRoles) THEN TRUE
    ELSE IF IsDefined(allowedRoles) THEN roleSet \cap Val(allowedRoles) # {}
    ELSE roleSet \cap Val(disabledRoles) = {}

\* C13: verifyRoles equals the reference for all role lists and all users,
\* a user with no roles included.
C13_VerifyRolesMatchesReference ==
    [][ last'.op = "verifyRoles" =>
          last'.result =
              IF RefVerifyRoles(Val(last'.input).allowed,
                                Val(last'.input).disabled,
                                RoleSet(UserInfo.roles))
              THEN "true" ELSE "false" ]_vars

\* ------------------------------------------------------- the patched login
\* What a caller hands to kc.login: nothing, or an options object with or
\* without an idpHint of its own.
LoginOptions ==
    { Undefined } \cup
    { Some([ idpHint |-> h, prompt |-> pr ]) :
        h \in { Undefined } \cup { Some(x) : x \in IdpHints },
        pr \in {"", "none"} }

\* Lines 39-45, the login of client c called with `options`: what reaches
\* the provider's own login (kcLogin).  The wrapper initializeKeyCloak
\* installs sets the hint on an options object and passes anything else
\* through; the clients of initializeToken and logout keep the native login.
KcLogin(c, options) ==
    IF IsDefined(c.idpHint) /\ IsDefined(options)
    THEN Some([ Val(options) EXCEPT !.idpHint = c.idpHint ])
    ELSE options

\* The application, or the provider client itself, calls this.kc.login.
Login(options) ==
    /\ kc.id # 0
    /\ last' = [ Last("login", options, "redirect")
                 EXCEPT !.login = KcLogin(kc, options) ]
    /\ UNCHANGED << kc, nextClient, storage, parsedToken, timerId, timers,
                    pending, pinia, authStore, now, calls, loggedOut >>

NextLogin ==
    \/ \E h \in IdpHints : InitializeKeyCloak(h)
    \/ \E p \in pending, ok \in BOOLEAN, a \in BOOLEAN :
          \E g \in GrantsFor(p) : InitKCSettle(p, ok, a, g)
    \/ \E o \in LoginOptions : Login(o)

SpecLogin == Init /\ [][NextLogin]_vars

\* C15: after initializeKeyCloak(idpHint) every call of the client's login,
\* with an options object or with none, reaches the provider's login
\* carrying idpHint.
C15_LoginCarriesHint ==
    (last.op = "login" /\ kc.by = "initializeKeyCloak")
        => (IsDefined(last.login) /\ Val(last.login).idpHint = kc.idpHint)

\* ------------------------------------------------- an established session
\* The page after initializeToken(false) resolved authenticated with grant g
\* and the application called initSession() with its Pinia store active:
\* tokens synced, claims cached, store projected, the timer armed when both
\* tokens are valid.  calls counts the public calls made from here on.
InitEstablished ==
    /\ kc \in EstablishedClients
    /\ nextClient = kc.id
    /\ pinia = TRUE
    /\ storage = SyncSessionStorage(
                     AddToSession(EmptyStorage, "synced", "false"), kc)
    /\ parsedToken = DecodeToken(storage.token)
    /\ authStore = ProjectedStore(EmptyAuthStore, kc, parsedToken)
    /\ timers = IF ScheduleThrows(kc, 0) THEN {}
                ELSE ArmTimer({}, kc, 0, EarlyMilliseconds(0))
    /\ timerId = IF ScheduleThrows(kc, 0) THEN 0 ELSE FreshHandle({})
    /\ pending = {}
    /\ now = 0
    /\ calls = 0
    /\ loggedOut = FALSE
    /\ last = [ Last("initSession", Undefined,
                     IF ScheduleThrows(kc, 0) THEN "RefreshTokenExpired"
                     ELSE "undefined")
                EXCEPT !.armed = ~ScheduleThrows(kc, 0) ]

\* Logout and on-demand refresh on the established session.
NextEstablished ==
    \/ Tick
    \/ Logout
    \/ \E p \in pending, a \in BOOLEAN :
          \E g \in GrantsFor(p) : LogoutInitResolve(p, a, g)
    \/ \E p \in pending : LogoutInitReject(p)
    \/ \E p \in pending, ok \in BOOLEAN : KcLogoutSettle(p, ok)
    \/ \E f \in BOOLEAN : RefreshToken(f)
    \/ \E p \in pending, r \in BOOLEAN :
          \E g \in GrantsFor(p) : UpdateRefreshResolve(p, r, g)
    \/ \E p \in pending : UpdateRefreshReject(p)

SpecEstablished == InitEstablished /\ [][NextEstablished]_vars

\* C18: with an active store, in every state in which the manager has erased
\* the persisted tokens (clearSession on not-authenticated or on a rejected
\* refresh, or logout, whatever its provider call does later) the projection
\* holds no token, user id or login source.
C18_ProjectionClearedWithSession ==
    (pinia /\ TokensAbsent(storage) /\ (ClearSessionDone \/ loggedOut))
        => authStore = EmptyAuthStore

\* ------------------------------------------------------- the refresh chain
\* The page after initializeToken(false) resolved authenticated and the
\* application called scheduleRefreshTimer with a margin of its own: the
\* tokens are synced and one timer is pending, unless scheduling threw.
InitChain ==
    /\ kc \in EstablishedClients
    /\ nextClient = kc.id
    /\ pinia = FALSE
    /\ storage = SyncSessionStorage(
                     AddToSession(EmptyStorage, "synced", "false"), kc)
    /\ parsedToken = EmptyClaims
    /\ authStore = EmptyAuthStore
    /\ \E e \in EarlyInputs :
          /\ timers = IF ScheduleThrows(kc, 0) THEN {}
                      ELSE ArmTimer({}, kc, 0, EarlyMilliseconds(e))
          /\ last = [ Last("scheduleRefreshTimer", Some(e),
                           IF ScheduleThrows(kc, 0) THEN "RefreshTokenExpired"
                           ELSE "undefined")
                      EXCEPT !.armed = ~ScheduleThrows(kc, 0) ]
    /\ timerId = IF ScheduleThrows(kc, 0) THEN 0 ELSE FreshHandle({})
    /\ pending = {}
    /\ now = 0
    /\ calls = 0
    /\ loggedOut = FALSE

\* The timer chain on its own: the clock, a due timer's callback and the
\* provider's answer to its refresh.
NextChain ==
    \/ Tick
    \/ \E t \in timers : TimerFire(t)
    \/ \E p \in pending : \E g \in GrantsFor(p) : UpdateTimerResolve(p, g)
    \/ \E p \in pending : UpdateTimerReject(p)

\* The event loop runs a due timer's callback, and the provider answers a
\* refresh it can serve unless it fails it.
SpecChain ==
    /\ InitChain
    /\ [][NextChain]_vars
    /\ WF_vars(\E t \in timers : TimerFire(t))
    /\ WF_vars(\E p \in pending : \E g \in GrantsFor(p) :
                    UpdateTimerResolve(p, g))

\* A fired timer's updateToken(-1) settles in this step.
TimerRefreshResolved == pending' # pending /\ last'.op = "updateTimerResolved"
TimerRefreshRejected == pending' # pending /\ last'.op = "updateTimerRejected"

\* The request that settles in this step.
Settled == pending \ pending'

\* A fired timer's refresh is in flight and the provider can serve it.
TimerRefreshInFlight ==
    \E p \in pending : p.kind = "updateTimer" /\ p.canRefresh

\* The chain goes on (a timer is pending) or has ended for a reason the code
\* gives: the provider failed the refresh, or scheduling found a token expired.
ChainContinuesOrEnded ==
    \/ timers # {}
    \/ last.op = "updateTimerRejected"
    \/ last.op = "updateTimerResolved" /\ last.result = "RefreshTokenExpired"

\* C19: when a fired timer's forced refresh resolves while the access and the
\* refresh token are unexpired, the tokens are persisted and exactly one new
\* timer is armed, with the early margin of the timer that fired; when it
\* rejects, no timer is armed; and a refresh in flight that the provider
\* serves leads to a pending timer again.
C19_RefreshChainContinues ==
    /\ [][ /\ (TimerRefreshResolved /\ BothValid(kc', now)) =>
                 /\ storage'.token = kc'.token
                 /\ storage'.refreshToken = kc'.refreshToken
                 /\ storage'.idToken = kc'.idToken
                 /\ timers \subseteq timers'
                 /\ Cardinality(timers' \ timers) = 1
                 /\ \A t \in timers' \ timers :
                        \A p \in Settled : t.early = p.early
           /\ TimerRefreshRejected => timers' \subseteq timers ]_vars
    /\ TimerRefreshInFlight ~> ChainContinuesOrEnded

\* C19, its case reached: a timer scheduled with a margin of 20 seconds
\* fired, its refresh resolved and the chain was re-armed with that margin.
C19_Witness ==
    /\ last.op = "updateTimerResolved"
    /\ last.armed
    /\ storage.token = kc.token
    /\ \E t \in timers :
          t.id = timerId /\ t.early = EarlyMilliseconds(2 * REFRESH_ATTEMPT_INTERVAL)
====
